---- MODULE Spec2Model ----
(***************************************************************************)
(* Model of the Twitch OAuth router (backend/app/routers/auth/twitch.py)   *)
(* and of the request-scoped database session (backend/app/db/session.py). *)
(*                                                                         *)
(* Python str values are sequences of one-character strings, so that the   *)
(* length and the alphabet of a generated token are computed, not assumed. *)
(* None is a value outside every such sequence.  Each request runs in a    *)
(* slot; a coroutine may be suspended at every await of the source, and    *)
(* the steps of different slots interleave freely.                         *)
(***************************************************************************)
EXTENDS Integers, Sequences, FiniteSets, TLC

VARIABLES users, jar, rng, req, started, schemas, inits

vars == <<users, jar, rng, req, started, schemas, inits>>

----------------------------------------------------------------------------
(* Bounds of the model *)

NumSlots == 2
MaxRequests == 3
MaxInits == 2
MaxStoredRows == 2

Slots == 1..NumSlots

----------------------------------------------------------------------------
(* Python values *)

None == <<"None">>

Truthy(v) == v # None /\ v # <<>>

ascii_letters ==
  << "a","b","c","d","e","f","g","h","i","j","k","l","m",
     "n","o","p","q","r","s","t","u","v","w","x","y","z",
     "A","B","C","D","E","F","G","H","I","J","K","L","M",
     "N","O","P","Q","R","S","T","U","V","W","X","Y","Z" >>

digits == << "0","1","2","3","4","5","6","7","8","9" >>

(* the generator behind random.choices: a linear congruential stream *)
RngNext(x) == (5 * x + 3) % 64

RECURSIVE random_choices(_, _, _)
random_choices(x, population, k) ==
  IF k <= 0 THEN [out |-> <<>>, rng |-> x]
  ELSE LET y == RngNext(x)
           rest == random_choices(y, population, k - 1)
       IN [out |-> <<population[(y % Len(population)) + 1]>> \o rest.out,
           rng |-> rest.rng]

(* one character short *)
generate_random_string_short(x, length) ==
  random_choices(x, ascii_letters \o digits, length - 1)

generate_random_string(x, length) ==
  random_choices(x, ascii_letters \o digits, length)

----------------------------------------------------------------------------
(* Configuration (app.config.settings) *)

TWITCH_CLIENT_ID == <<"c", "i", "d">>

TWITCH_CLIENT_SECRET == <<"s", "e", "c">>

REDIRECT_URI == <<"h", ":", "/", "c", "b">>

FRONTEND_URL == "https://frontend"

AUTHORIZE_URL == "https://id.twitch.tv/oauth2/authorize"

TOKEN_URL == "https://id.twitch.tv/oauth2/token"

USERS_URL == "https://api.twitch.tv/helix/users"

----------------------------------------------------------------------------
(* urllib.parse.urlencode: quote_plus of every value, in insertion order *)

AlwaysSafe ==
  {ascii_letters[i] : i \in 1..Len(ascii_letters)} \cup
  {digits[i] : i \in 1..Len(digits)} \cup {"_", ".", "-", "~"}

PercentEncode(c) ==
  CASE c = ":" -> <<"%", "3", "A">>
    [] c = "/" -> <<"%", "2", "F">>
    [] c = "=" -> <<"%", "3", "D">>
    [] c = "&" -> <<"%", "2", "6">>
    [] OTHER   -> <<"%", c>>

RECURSIVE quote_plus(_)
quote_plus(v) ==
  IF v = <<>> THEN <<>>
  ELSE LET c == Head(v)
           q == IF c \in AlwaysSafe THEN <<c>>
                ELSE IF c = " " THEN <<"+">>
                ELSE PercentEncode(c)
       IN q \o quote_plus(Tail(v))

urlencode(params) ==
  [i \in 1..Len(params) |-> [k |-> params[i].k, v |-> quote_plus(params[i].v)]]

(* the value a URL carries for a key, undefined keys read as None *)
UrlParam(url, key) ==
  IF \E i \in 1..Len(url.query) : url.query[i].k = key
  THEN url.query[CHOOSE i \in 1..Len(url.query) : url.query[i].k = key].v
  ELSE None

----------------------------------------------------------------------------
(* The provider: what Twitch may answer.  Its answers are inputs. *)

TwitchIds == {<<"7">>, <<"8">>}

TwitchUser(t) ==
  [id |-> t, login |-> <<"l">> \o t, display_name |-> <<"D">> \o t,
   profile_image_url |-> <<"p">> \o t]

(* JSON bodies of GET /helix/users: null, no "data" key, empty list, one user *)
UserBodies ==
  {[null |-> TRUE, has_data |-> FALSE, data |-> <<>>],
   [null |-> FALSE, has_data |-> FALSE, data |-> <<>>],
   [null |-> FALSE, has_data |-> TRUE, data |-> <<>>]} \cup
  {[null |-> FALSE, has_data |-> TRUE, data |-> <<TwitchUser(t)>>] : t \in TwitchIds}

NoData == [null |-> TRUE, has_data |-> FALSE, data |-> <<>>]

(* JSON bodies of POST /oauth2/token *)
TokenBodies ==
  {[access_token |-> <<"a", "1">>, refresh_token |-> <<"r", "1">>],
   [access_token |-> <<"a", "2">>, refresh_token |-> <<"r", "2">>]}

NoBody == [access_token |-> None, refresh_token |-> None]

TokenStatuses == {200, 400, 500}

UserStatuses == {200, 401}

(* what a client may put in the query string; None is an absent parameter *)
Codes == {None, <<>>, <<"c">>}

ForgedState == <<"x">>

RefreshTokens == {<<"r", "1">>, <<"r", "9">>}

----------------------------------------------------------------------------
(* Records of a request in flight *)

NoInfo == [id |-> None, username |-> None, display_name |-> None, avatar_url |-> None]

NoUser ==
  [id |-> 0, username |-> None, avatar_url |-> None, twitch_id |-> None,
   twitch_display_name |-> None, twitch_access_token |-> None,
   twitch_refresh_token |-> None]

NoUrl == [base |-> "", query |-> <<>>]

NoCookie == [key |-> "", value |-> None, expire |-> FALSE]

NoResponse ==
  [status |-> 0, detail |-> "", location |-> NoUrl, set_cookie |-> NoCookie,
   body |-> NoBody]

NoQuery == [code |-> None, state |-> None, other |-> None]

Idle ==
  [kind |-> "idle", pc |-> "idle", query |-> NoQuery, cookies |-> [twitch_state |-> None],
   arg |-> None, api_response |-> NoBody, access_token |-> None, refresh_token |-> None,
   data |-> NoData, user_info |-> NoInfo, new_user |-> NoUser, session |-> "none",
   sent |-> <<>>, executed |-> <<>>, response |-> NoResponse]

(* an error response that also deletes the state cookie *)
HTTPException_clears_cookie(status_code, detail) ==
  [NoResponse EXCEPT !.status = status_code, !.detail = detail,
                     !.set_cookie = [key |-> "twitch_state", value |-> <<>>,
                                     expire |-> TRUE]]

(* fastapi.HTTPException and RedirectResponse as the response they become *)
HTTPException(status_code, detail) ==
  [NoResponse EXCEPT !.status = status_code, !.detail = detail]

RedirectResponse(url) ==
  [NoResponse EXCEPT !.status = 307, !.location = url]

set_cookie(response, key, value) ==
  [response EXCEPT !.set_cookie = [key |-> key, value |-> value, expire |-> FALSE]]

delete_cookie(response, key) ==
  [response EXCEPT !.set_cookie = [key |-> key, value |-> <<>>, expire |-> TRUE]]

(* the browser applies the Set-Cookie header of a response to its jar *)
ApplyCookie(j, response) ==
  IF response.set_cookie.key = "twitch_state"
  THEN [j EXCEPT !.twitch_state =
          IF response.set_cookie.expire THEN None ELSE response.set_cookie.value]
  ELSE j

(* an outbound HTTP call of aiohttp.ClientSession *)
Call(method, url, grant_type, credential) ==
  [method |-> method, url |-> url, client_id |-> TWITCH_CLIENT_ID,
   grant_type |-> grant_type, credential |-> credential]

(* a session provider without the async with: the release after the yield is
   skipped when the handler raises *)
Finish_leak(q, response) ==
  [q EXCEPT !.pc = "done", !.response = response,
            !.session = IF q.session = "open" /\ response.status < 400
                        THEN "closed" ELSE q.session,
            !.api_response = NoBody, !.access_token = None, !.refresh_token = None,
            !.data = NoData, !.user_info = NoInfo, !.new_user = NoUser]

(* the handler returns or raises: the response goes out, the request-scoped
   session (if any) is released, the locals die *)
Finish(q, response) ==
  [q EXCEPT !.pc = "done", !.response = response,
            !.session = IF q.session = "open" THEN "closed" ELSE q.session,
            !.api_response = NoBody, !.access_token = None, !.refresh_token = None,
            !.data = NoData, !.user_info = NoInfo, !.new_user = NoUser]

----------------------------------------------------------------------------
(* The schema of the database (session.py lines 24-26) *)

(* SQLModel.metadata: the declared entities *)
metadata == {"user"}

(* tables a database may hold besides the declared ones *)
ForeignTables == {"alembic_version"}

(* drop_all before create_all: the declared tables are recreated empty *)
create_all_recreate(db, tables) ==
  [tables |-> db.tables \cup tables, rows |-> <<>>]

(* MetaData.create_all with its default checkfirst: every declared table
   that is absent is created, present tables and their rows are left alone *)
create_all(db, tables) ==
  [tables |-> db.tables \cup {t \in tables : t \notin db.tables},
   rows |-> db.rows]

(* a new request takes the lowest slot whose handler is not running *)
Free(r) ==
  /\ req[r].pc \in {"idle", "done"}
  /\ \A q \in 1..(r - 1) : req[q].pc \notin {"idle", "done"}
  /\ started < MaxRequests

----------------------------------------------------------------------------
Init ==
  /\ users = <<>>
  /\ jar = [twitch_state |-> None]
  /\ rng = 1
  /\ req = [r \in Slots |-> Idle]
  /\ started = 0
  /\ schemas = metadata
  /\ inits = 1

(* GET /login, lines 70-91 *)
twitch_login(r) ==
  /\ Free(r)
  /\ LET g == generate_random_string(rng, 16)
         state == g.out
         query_params == << [k |-> "response_type", v |-> <<"c", "o", "d", "e">>],
                            [k |-> "client_id", v |-> TWITCH_CLIENT_ID],
                            [k |-> "redirect_uri", v |-> REDIRECT_URI],
                            [k |-> "state", v |-> state] >>
         response == set_cookie(
                       RedirectResponse([base |-> AUTHORIZE_URL,
                                         query |-> urlencode(query_params)]),
                       "twitch_state", state)
     IN /\ rng' = g.rng
        /\ req' = [req EXCEPT ![r] =
                     [Idle EXCEPT !.kind = "login", !.pc = "done",
                                  !.cookies = jar, !.response = response]]
        /\ jar' = ApplyCookie(jar, response)
  /\ started' = started + 1
  /\ UNCHANGED <<users, schemas, inits>>

----------------------------------------------------------------------------
(* GET /callback, lines 94-152 *)

Queries ==
  {[code |-> c, state |-> s, other |-> None] :
      c \in Codes, s \in {None, <<>>, ForgedState, jar.twitch_state}}
  \cup {[code |-> None, state |-> None, other |-> <<"e">>]}

(* line 105: not request.query_params *)
QueryEmpty(q) == q.code = None /\ q.state = None /\ q.other = None

(* line 112 without the comparison against the cookie *)
StateInvalid_nocompare(code, state, stored_state) ==
  ~Truthy(code) \/ ~Truthy(state)

(* line 112 without the test of the code *)
StateInvalid_nocode(code, state, stored_state) ==
  ~Truthy(state) \/ state # stored_state

(* line 112 with the comparison alone *)
StateInvalid_onlycompare(code, state, stored_state) ==
  state # stored_state

(* line 112 *)
StateInvalid(code, state, stored_state) ==
  ~Truthy(code) \/ ~Truthy(state) \/ state # stored_state

(* lines 95-123: the session dependency, the validation, the token request *)
callback_begin(r, q) ==
  /\ Free(r)
  /\ LET this == [Idle EXCEPT !.kind = "callback", !.query = q, !.cookies = jar,
                              !.session = "open"]
         code == q.code
         state == q.state
         stored_state == jar.twitch_state
     IN IF QueryEmpty(q)
        THEN /\ req' = [req EXCEPT ![r] =
                  Finish(this, HTTPException(400, "No query parameters received"))]
        ELSE IF StateInvalid(code, state, stored_state)
        THEN /\ req' = [req EXCEPT ![r] =
                  Finish(this, HTTPException(400, "Invalid or missing state"))]
        ELSE /\ req' = [req EXCEPT ![r] =
                  [this EXCEPT !.pc = "token",
                               !.sent = <<Call("POST", TOKEN_URL, "authorization_code", code)>>]]
  /\ started' = started + 1
  /\ UNCHANGED <<users, jar, rng, schemas, inits>>

(* lines 63-67: the outcome of fetch_twitch_token for an answer of the provider *)
fetch_twitch_token(status, body) ==
  IF status # 200
  THEN [raised |-> TRUE, exc |-> HTTPException(status, "Failed to fetch tokens"),
        value |-> NoBody]
  ELSE [raised |-> FALSE, exc |-> NoResponse, value |-> body]

(* the provider's status replaced by a fixed one *)
fetch_user_info_fixed_status(status, data) ==
  IF status # 200
  THEN [raised |-> TRUE, exc |-> HTTPException(400, "Failed to fetch user info"),
        value |-> NoInfo]
  ELSE IF ~data.null /\ data.has_data /\ data.data # <<>>
  THEN LET user == data.data[1]
       IN [raised |-> FALSE, exc |-> NoResponse,
           value |-> [id |-> user.id, username |-> user.login,
                      display_name |-> user.display_name,
                      avatar_url |-> user.profile_image_url]]
  ELSE [raised |-> FALSE, exc |-> NoResponse, value |-> NoInfo]

(* lines 37-53: the outcome of fetch_user_info for an answer of the provider *)
fetch_user_info(status, data) ==
  IF status # 200
  THEN [raised |-> TRUE, exc |-> HTTPException(status, "Failed to fetch user info"),
        value |-> NoInfo]
  ELSE IF ~data.null /\ data.has_data /\ data.data # <<>>
  THEN LET user == data.data[1]
       IN [raised |-> FALSE, exc |-> NoResponse,
           value |-> [id |-> user.id, username |-> user.login,
                      display_name |-> user.display_name,
                      avatar_url |-> user.profile_image_url]]
  ELSE [raised |-> FALSE, exc |-> NoResponse, value |-> NoInfo]

(* the redirect without delete_cookie *)
callback_redirect_keeps_cookie ==
  RedirectResponse([base |-> FRONTEND_URL \o "/configurator", query |-> <<>>])

(* lines 149-152 *)
callback_redirect ==
  delete_cookie(RedirectResponse([base |-> FRONTEND_URL \o "/configurator",
                                  query |-> <<>>]), "twitch_state")

(* a failed token request is sent again, for ever *)
callback_token_retry(r, status, body) ==
  /\ req[r].kind = "callback" /\ req[r].pc = "token"
  /\ LET t == fetch_twitch_token(status, body)
         again == Call("POST", TOKEN_URL, "authorization_code", req[r].query.code)
     IN IF t.raised
        THEN /\ req' = [req EXCEPT ![r] =
                  [@ EXCEPT !.sent = IF Len(@) < 2 THEN Append(@, again) ELSE <<again>>]]
             /\ jar' = jar
        ELSE /\ req' = [req EXCEPT ![r] =
                  [@ EXCEPT !.pc = "userinfo", !.api_response = t.value,
                            !.access_token = t.value.access_token,
                            !.refresh_token = t.value.refresh_token,
                            !.sent = <<again, Call("GET", USERS_URL, "",
                                                   t.value.access_token)>>]]
             /\ jar' = jar
  /\ UNCHANGED <<users, rng, started, schemas, inits>>

(* the refresh token sent as the bearer credential *)
callback_token_wrong_bearer(r, status, body) ==
  /\ req[r].kind = "callback" /\ req[r].pc = "token"
  /\ LET t == fetch_twitch_token(status, body)
     IN IF t.raised
        THEN /\ req' = [req EXCEPT ![r] = Finish(@, t.exc)]
             /\ jar' = ApplyCookie(jar, t.exc)
        ELSE /\ req' = [req EXCEPT ![r] =
                  [@ EXCEPT !.pc = "userinfo", !.api_response = t.value,
                            !.access_token = t.value.access_token,
                            !.refresh_token = t.value.refresh_token,
                            !.sent = Append(@, Call("GET", USERS_URL, "",
                                                    t.value.refresh_token))]]
             /\ jar' = jar
  /\ UNCHANGED <<users, rng, started, schemas, inits>>

(* lines 123-127 and 30-36: the token answer arrives, the user-info request
   leaves *)
callback_token(r, status, body) ==
  /\ req[r].kind = "callback" /\ req[r].pc = "token"
  /\ LET t == fetch_twitch_token(status, body)
     IN IF t.raised
        THEN /\ req' = [req EXCEPT ![r] = Finish(@, t.exc)]
             /\ jar' = ApplyCookie(jar, t.exc)
        ELSE /\ req' = [req EXCEPT ![r] =
                  [@ EXCEPT !.pc = "userinfo", !.api_response = t.value,
                            !.access_token = t.value.access_token,
                            !.refresh_token = t.value.refresh_token,
                            !.sent = Append(@, Call("GET", USERS_URL, "",
                                                    t.value.access_token))]]
             /\ jar' = jar
  /\ UNCHANGED <<users, rng, started, schemas, inits>>

(* a failed user-info request is sent once more before giving up *)
callback_userinfo_retry(r, status, data) ==
  /\ req[r].kind = "callback" /\ req[r].pc = "userinfo"
  /\ LET u == fetch_user_info(status, data)
     IN IF u.raised /\ Len(req[r].sent) < 3
        THEN /\ req' = [req EXCEPT ![r] =
                  [@ EXCEPT !.sent = Append(@, Call("GET", USERS_URL, "",
                                                    req[r].access_token))]]
             /\ jar' = jar
        ELSE IF u.raised
        THEN /\ req' = [req EXCEPT ![r] = Finish(@, u.exc)]
             /\ jar' = ApplyCookie(jar, u.exc)
        ELSE IF u.value # NoInfo
        THEN /\ req' = [req EXCEPT ![r] = [@ EXCEPT !.pc = "lookup", !.data = data,
                                                !.user_info = u.value]]
             /\ jar' = jar
        ELSE /\ req' = [req EXCEPT ![r] = Finish(@, callback_redirect)]
             /\ jar' = ApplyCookie(jar, callback_redirect)
  /\ UNCHANGED <<users, rng, started, schemas, inits>>

(* lines 127-132: the user-info answer arrives; with a profile the lookup is
   sent to the database, without one the handler redirects *)
callback_userinfo(r, status, data) ==
  /\ req[r].kind = "callback" /\ req[r].pc = "userinfo"
  /\ LET u == fetch_user_info(status, data)
     IN IF u.raised
        THEN /\ req' = [req EXCEPT ![r] = Finish(@, u.exc)]
             /\ jar' = ApplyCookie(jar, u.exc)
        ELSE IF u.value # NoInfo
        THEN /\ req' = [req EXCEPT ![r] = [@ EXCEPT !.pc = "lookup", !.data = data,
                                                !.user_info = u.value]]
             /\ jar' = jar
        ELSE /\ req' = [req EXCEPT ![r] = Finish(@, callback_redirect)]
             /\ jar' = ApplyCookie(jar, callback_redirect)
  /\ UNCHANGED <<users, rng, started, schemas, inits>>

(* a lookup that never finds a row *)
select_first_none(table, twitch_id) == NoUser

(* line 131-133: select(User).where(User.twitch_id == ...), result.first() *)
select_first(table, twitch_id) ==
  IF \E i \in 1..Len(table) : table[i].twitch_id = twitch_id
  THEN table[CHOOSE i \in 1..Len(table) :
                /\ table[i].twitch_id = twitch_id
                /\ \A j \in 1..(i - 1) : table[j].twitch_id # twitch_id]
  ELSE NoUser

(* the two tokens stored in each other's column *)
User_swapped(user_info, access_token, refresh_token) ==
  [id |-> 0,
   username |-> user_info.username,
   avatar_url |-> user_info.avatar_url,
   twitch_id |-> user_info.id,
   twitch_display_name |-> user_info.display_name,
   twitch_access_token |-> refresh_token,
   twitch_refresh_token |-> access_token]

(* lines 136-144 *)
User(user_info, access_token, refresh_token) ==
  [id |-> 0,
   username |-> user_info.username,
   avatar_url |-> user_info.avatar_url,
   twitch_id |-> user_info.id,
   twitch_display_name |-> user_info.display_name,
   twitch_access_token |-> access_token,
   twitch_refresh_token |-> refresh_token]

(* the storage layer's answer to an INSERT: the spec states that uniqueness of
   twitch_id is not enforced there (sections 5 and 9), so no row is refused *)
InsertRefused(table, row) == FALSE

(* an upsert: rows of the same twitch_id are replaced by the new one *)
insert_upsert(table, row) ==
  [i \in 1..Len(table) |->
     IF table[i].twitch_id = row.twitch_id
     THEN [row EXCEPT !.id = table[i].id] ELSE table[i]]
  \o IF \E i \in 1..Len(table) : table[i].twitch_id = row.twitch_id
     THEN <<>> ELSE <<[row EXCEPT !.id = Len(table) + 1]>>

(* the INSERT of the commit: the row gets the next primary key *)
insert(table, row) == Append(table, [row EXCEPT !.id = Len(table) + 1])

(* lines 132-145: the database answers the lookup; a found row leads to the
   redirect, no row to a new User added to the session *)
callback_lookup(r) ==
  /\ req[r].kind = "callback" /\ req[r].pc = "lookup"
  /\ LET user_db == select_first(users, req[r].user_info.id)
     IN IF user_db = NoUser
        THEN /\ req' = [req EXCEPT ![r] =
                  [@ EXCEPT !.pc = "commit", !.executed = Append(@, "SELECT"),
                            !.new_user = User(req[r].user_info, req[r].access_token,
                                              req[r].refresh_token)]]
             /\ jar' = jar
        ELSE /\ req' = [req EXCEPT ![r] =
                  Finish([@ EXCEPT !.executed = Append(@, "SELECT")], callback_redirect)]
             /\ jar' = ApplyCookie(jar, callback_redirect)
  /\ UNCHANGED <<users, rng, started, schemas, inits>>

(* line 146: await session.commit() *)
callback_commit(r) ==
  /\ req[r].kind = "callback" /\ req[r].pc = "commit"
  /\ IF InsertRefused(users, req[r].new_user)
     THEN /\ req' = [req EXCEPT ![r] =
               Finish([@ EXCEPT !.executed = Append(@, "INSERT")],
                      HTTPException(500, "Internal Server Error"))]
          /\ users' = users
     ELSE /\ users' = insert(users, req[r].new_user)
          /\ req' = [req EXCEPT ![r] =
                  [@ EXCEPT !.pc = "refresh", !.executed = Append(@, "INSERT"),
                            !.new_user.id = Len(users) + 1]]
  /\ UNCHANGED <<jar, rng, started, schemas, inits>>

(* lines 147-152: await session.refresh(new_user), then the redirect *)
callback_refresh(r) ==
  /\ req[r].kind = "callback" /\ req[r].pc = "refresh"
  /\ req' = [req EXCEPT ![r] =
               Finish([@ EXCEPT !.executed = Append(@, "REFRESH"),
                                !.new_user = users[req[r].new_user.id]],
                      callback_redirect)]
  /\ jar' = ApplyCookie(jar, callback_redirect)
  /\ UNCHANGED <<users, rng, started, schemas, inits>>

----------------------------------------------------------------------------
(* POST /refresh, lines 155-169 *)

refresh_token_begin(r, refresh_token) ==
  /\ Free(r)
  /\ req' = [req EXCEPT ![r] =
               [Idle EXCEPT !.kind = "refresh", !.pc = "token", !.cookies = jar,
                            !.arg = refresh_token,
                            !.sent = <<Call("POST", TOKEN_URL, "refresh_token",
                                            refresh_token)>>]]
  /\ started' = started + 1
  /\ UNCHANGED <<users, jar, rng, schemas, inits>>

(* a refresh that also stores the new pair on the User holding the old token *)
refresh_token_answer_persist(r, status, body) ==
  /\ req[r].kind = "refresh" /\ req[r].pc = "token"
  /\ LET t == fetch_twitch_token(status, body)
         response == IF t.raised THEN t.exc
                     ELSE [NoResponse EXCEPT !.status = 200, !.body = t.value]
     IN /\ req' = [req EXCEPT ![r] = Finish(@, response)]
        /\ jar' = ApplyCookie(jar, response)
        /\ users' = [i \in 1..Len(users) |->
                       IF ~t.raised /\ users[i].twitch_refresh_token = req[r].arg
                       THEN [users[i] EXCEPT
                               !.twitch_access_token = t.value.access_token,
                               !.twitch_refresh_token = t.value.refresh_token]
                       ELSE users[i]]
  /\ UNCHANGED <<rng, started, schemas, inits>>

refresh_token_answer(r, status, body) ==
  /\ req[r].kind = "refresh" /\ req[r].pc = "token"
  /\ LET t == fetch_twitch_token(status, body)
         response == IF t.raised THEN t.exc
                     ELSE [NoResponse EXCEPT !.status = 200, !.body = t.value]
     IN /\ req' = [req EXCEPT ![r] = Finish(@, response)]
        /\ jar' = ApplyCookie(jar, response)
  /\ UNCHANGED <<users, rng, started, schemas, inits>>

----------------------------------------------------------------------------
Next ==
  \/ \E r \in Slots : twitch_login(r)
  \/ \E r \in Slots : \E q \in Queries : callback_begin(r, q)
  \/ \E r \in Slots : \E s \in TokenStatuses : \E b \in TokenBodies :
        callback_token(r, s, b)
  \/ \E r \in Slots : \E s \in UserStatuses : \E d \in UserBodies :
        callback_userinfo(r, s, d)
  \/ \E r \in Slots : callback_lookup(r)
  \/ \E r \in Slots : callback_commit(r)
  \/ \E r \in Slots : callback_refresh(r)
  \/ \E r \in Slots : \E t \in RefreshTokens : refresh_token_begin(r, t)
  \/ \E r \in Slots : \E s \in TokenStatuses : \E b \in TokenBodies :
        refresh_token_answer(r, s, b)

Spec == Init /\ [][Next]_vars

----------------------------------------------------------------------------
(* Failures of the environment: a database statement raises.  The exception
   leaves the handler, the framework answers 500, and the async with of
   get_session (session.py lines 19-21) releases the session. *)

InternalServerError == HTTPException(500, "Internal Server Error")

(* line 132: await session.exec(statement) raises *)
callback_lookup_error(r) ==
  /\ req[r].kind = "callback" /\ req[r].pc = "lookup"
  /\ req' = [req EXCEPT ![r] =
               Finish([@ EXCEPT !.executed = Append(@, "SELECT")], InternalServerError)]
  /\ jar' = ApplyCookie(jar, InternalServerError)
  /\ UNCHANGED <<users, rng, started, schemas, inits>>

(* line 146: await session.commit() raises, nothing is stored *)
callback_commit_error(r) ==
  /\ req[r].kind = "callback" /\ req[r].pc = "commit"
  /\ req' = [req EXCEPT ![r] =
               Finish([@ EXCEPT !.executed = Append(@, "INSERT")], InternalServerError)]
  /\ jar' = ApplyCookie(jar, InternalServerError)
  /\ UNCHANGED <<users, rng, started, schemas, inits>>

(* line 147: await session.refresh(new_user) raises after the commit *)
callback_refresh_error(r) ==
  /\ req[r].kind = "callback" /\ req[r].pc = "refresh"
  /\ req' = [req EXCEPT ![r] =
               Finish([@ EXCEPT !.executed = Append(@, "REFRESH")], InternalServerError)]
  /\ jar' = ApplyCookie(jar, InternalServerError)
  /\ UNCHANGED <<users, rng, started, schemas, inits>>

(* session.py lines 24-26: init_db, run at process startup *)
init_db ==
  /\ inits < MaxInits
  /\ LET db == create_all([tables |-> schemas, rows |-> users], metadata)
     IN /\ schemas' = db.tables
        /\ users' = db.rows
  /\ inits' = inits + 1
  /\ UNCHANGED <<jar, rng, req, started>>

(* the rows a database may hold when the process starts *)
StoredRows ==
  {User(fetch_user_info(200, [null |-> FALSE, has_data |-> TRUE,
                              data |-> <<TwitchUser(t)>>]).value,
        b.access_token, b.refresh_token) : t \in TwitchIds, b \in TokenBodies}

RECURSIVE StoredTables(_)
StoredTables(n) ==
  IF n = 0 THEN {<<>>}
  ELSE LET shorter == StoredTables(n - 1)
       IN shorter \cup {insert(tb, row) : tb \in {x \in shorter : Len(x) = n - 1},
                                           row \in StoredRows}

(* the process starts on a database that is empty or was used before *)
InitStartup ==
  /\ schemas \in SUBSET (metadata \cup ForeignTables)
  /\ users \in (IF "user" \in schemas THEN StoredTables(MaxStoredRows) ELSE {<<>>})
  /\ jar = [twitch_state |-> None]
  /\ rng = 1
  /\ req = [r \in Slots |-> Idle]
  /\ started = 0
  /\ inits = 0

NextStartup == init_db

SpecStartup == InitStartup /\ [][NextStartup]_vars

(* lines 35-36 and 63-64: aiohttp.ClientSession() is created without a timeout
   argument, so the client's default total timeout applies: a call the
   provider does not answer raises asyncio.TimeoutError, which no handler
   catches *)
http_timeout(r) ==
  /\ req[r].kind \in {"callback", "refresh"}
  /\ req[r].pc \in {"token", "userinfo"}
  /\ req' = [req EXCEPT ![r] = Finish(@, InternalServerError)]
  /\ jar' = ApplyCookie(jar, InternalServerError)
  /\ UNCHANGED <<users, rng, started, schemas, inits>>

NextEnv ==
  \/ Next
  \/ \E r \in Slots : http_timeout(r)
  \/ \E r \in Slots : callback_lookup_error(r)
  \/ \E r \in Slots : callback_commit_error(r)
  \/ \E r \in Slots : callback_refresh_error(r)

SpecEnv == Init /\ [][NextEnv]_vars

(* an outbound call ends: the provider answers or the client gives up *)
CallEnds(r) ==
  \/ \E s \in TokenStatuses : \E b \in TokenBodies : callback_token(r, s, b)
  \/ \E s \in UserStatuses : \E d \in UserBodies : callback_userinfo(r, s, d)
  \/ \E s \in TokenStatuses : \E b \in TokenBodies : refresh_token_answer(r, s, b)
  \/ http_timeout(r)

(* a database statement ends: it returns or raises *)
StatementEnds(r) ==
  \/ callback_lookup(r) \/ callback_lookup_error(r)
  \/ callback_commit(r) \/ callback_commit_error(r)
  \/ callback_refresh(r) \/ callback_refresh_error(r)

(* the event loop resumes a coroutine whose await has a result; as an await
   keeps its result until the coroutine is resumed, it is enough that some
   resumable coroutine is resumed *)
Resume == \E r \in Slots : CallEnds(r) \/ StatementEnds(r)

FairSpec == SpecEnv /\ WF_vars(Resume)

----------------------------------------------------------------------------
(* Vocabulary of the properties *)

(* a request starts in slot r in this step *)
Begins(r, kind) ==
  /\ Free(r) /\ started' = started + 1 /\ req'[r].kind = kind

Absent(v) == v = None \/ v = <<>>

Present(table, twitch_id) == \E i \in 1..Len(table) : table[i].twitch_id = twitch_id

(* a callback whose handler went past line 113 *)
PassedValidation(q) ==
  q.kind = "callback" /\ (q.pc # "done" \/ q.response.status # 400)

IsRedirectTo(response, base) ==
  response.status \div 100 = 3 /\ response.location = [base |-> base, query |-> <<>>]

----------------------------------------------------------------------------
(* C1: a callback whose twitch_state cookie is absent, whose state differs
   from the cookie, or whose code or state is missing or empty, ends with
   status 400 and leaves the User store as it was. *)
C1_InvalidCallbackIs400 ==
  [][\A r \in Slots :
       (/\ Begins(r, "callback")
        /\ \/ req'[r].cookies.twitch_state = None
           \/ req'[r].query.state # req'[r].cookies.twitch_state
           \/ Absent(req'[r].query.code)
           \/ Absent(req'[r].query.state))
       => /\ req'[r].pc = "done"
          /\ req'[r].response.status = 400
          /\ users' = users]_vars

(* a callback with a code and a state that differs from a cookie that is set
   was answered 400 *)
C1_Witness ==
  \E r \in Slots :
    /\ req[r].kind = "callback" /\ req[r].pc = "done"
    /\ req[r].query.code = <<"c">>
    /\ req[r].query.state = ForgedState
    /\ req[r].cookies.twitch_state # None
    /\ req[r].response.status = 400

(* C2: the User store holds at most one row per distinct twitch_id. *)
C2_OneRowPerTwitchId ==
  \A i, j \in 1..Len(users) :
    users[i].twitch_id = users[j].twitch_id => i = j

(* C3: once a callback carrying a state value and the matching cookie has
   passed state validation, no later callback carrying the same state value
   and cookie passes it. *)
C3_StateSingleUse ==
  [][\A r \in Slots :
       (Begins(r, "callback") /\ PassedValidation(req'[r]))
       => ~\E q \in Slots \ {r} :
             /\ PassedValidation(req[q])
             /\ req[q].query.state = req'[r].query.state
             /\ req[q].cookies = req'[r].cookies]_vars

(* C4: a validated callback whose token request is answered with a status s
   other than 200, or whose token request is answered 200 and whose user-info
   request is answered with a status s other than 200, fails with exactly s and
   leaves the User store as it was. *)
C4_UpstreamStatusPropagated ==
  [][\A r \in Slots :
       /\ \A s \in TokenStatuses \ {200} : \A b \in TokenBodies :
            callback_token(r, s, b)
            => /\ req'[r].pc = "done" /\ req'[r].response.status = s
               /\ users' = users
       /\ \A s \in UserStatuses \ {200} : \A d \in UserBodies :
            callback_userinfo(r, s, d)
            => /\ req'[r].pc = "done" /\ req'[r].response.status = s
               /\ users' = users]_vars

(* a callback sent both requests and failed with the user-info status *)
C4_Witness ==
  \E r \in Slots :
    /\ req[r].kind = "callback" /\ req[r].pc = "done"
    /\ Len(req[r].sent) = 2
    /\ req[r].response.status = 401

(* C5: a callback that got 200 from both upstream calls and whose lookup finds
   no row of the profile's twitch_id goes on to its commit, and its commit adds
   exactly one row: twitch_id, username, display name and avatar are those of
   the fetched profile, the tokens are the pair of its own token answer; every
   other row stays as it was. *)
C5_NewUserCreated ==
  [][\A r \in Slots :
       /\ (callback_lookup(r) /\ ~Present(users, req[r].data.data[1].id))
          => req'[r].pc = "commit" /\ users' = users
       /\ callback_commit(r)
          => LET u == req[r].data.data[1]
                 row == users'[Len(users')]
             IN /\ Len(users') = Len(users) + 1
                /\ SubSeq(users', 1, Len(users)) = users
                /\ row.twitch_id = u.id
                /\ row.username = u.login
                /\ row.twitch_display_name = u.display_name
                /\ row.avatar_url = u.profile_image_url
                /\ row.twitch_access_token = req[r].api_response.access_token
                /\ row.twitch_refresh_token = req[r].api_response.refresh_token
                /\ req'[r].pc = "refresh"]_vars

(* a callback has committed its new row next to an existing row of another
   twitch_id *)
C5_Witness ==
  \E r \in Slots :
    /\ req[r].kind = "callback" /\ req[r].pc = "refresh"
    /\ Len(users) = 2
    /\ users[1].twitch_id # users[2].twitch_id
    /\ req[r].new_user.id = 2

(* C6: a callback that got 200 from both upstream calls and whose lookup finds
   a row of the profile's twitch_id adds no row and answers with the redirect
   to the frontend URL. *)
C6_ExistingUserNoInsert ==
  [][\A r \in Slots :
       (callback_lookup(r) /\ Present(users, req[r].data.data[1].id))
       => /\ users' = users
          /\ req'[r].pc = "done"
          /\ IsRedirectTo(req'[r].response, FRONTEND_URL \o "/configurator")]_vars

(* a callback was redirected after a lookup and nothing else, the store
   holding the one row it found *)
C6_Witness ==
  \E r \in Slots :
    /\ req[r].kind = "callback" /\ req[r].pc = "done"
    /\ req[r].response.status = 307
    /\ req[r].executed = <<"SELECT">>
    /\ Len(users) = 1

(* C7: a User row once created is never modified and never deleted; the set
   of rows only grows. *)
C7_RowsImmutable ==
  [][/\ Len(users') >= Len(users)
     /\ \A i \in 1..Len(users) : users'[i] = users[i]]_vars

(* a second row was inserted and its callback has finished, the first row
   still being there *)
C7_Witness ==
  /\ Len(users) >= 2
  /\ \E r \in Slots :
       /\ req[r].kind = "callback" /\ req[r].pc = "done"
       /\ req[r].executed = <<"SELECT", "INSERT", "REFRESH">>
       /\ req[r].response.status = 307

(* C8: every callback that passed validation and got 200 from both upstream
   calls answers with the redirect to FRONTEND_URL/configurator and clears the
   twitch_state cookie, whether the user was created, existed, or no profile
   came back; in the no-profile case the User store is unchanged. *)
C8_SuccessAlwaysRedirects ==
  [][\A r \in Slots :
       LET ends == req[r].pc # "done" /\ req'[r].pc = "done"
           redirected ==
             /\ IsRedirectTo(req'[r].response, FRONTEND_URL \o "/configurator")
             /\ req'[r].response.set_cookie.key = "twitch_state"
             /\ req'[r].response.set_cookie.expire
             /\ jar'.twitch_state = None
       IN /\ (req[r].kind = "callback" /\ req[r].pc \in {"lookup", "commit", "refresh"}
               /\ ends) => redirected
          /\ \A d \in UserBodies :
               callback_userinfo(r, 200, d)
               => IF d.null \/ ~d.has_data \/ d.data = <<>>
                  THEN ends /\ redirected /\ users' = users
                  ELSE req'[r].pc = "lookup" /\ users' = users
          /\ (req[r].kind = "callback" /\ req[r].pc \in {"lookup", "commit", "refresh"})
             => req'[r].pc \in {"lookup", "commit", "refresh", "done"}]_vars

(* a callback got 200 twice with no profile and was redirected while the
   cookie had been set by a login *)
C8_Witness ==
  \E r \in Slots :
    /\ req[r].kind = "callback" /\ req[r].pc = "done"
    /\ req[r].response.status = 307
    /\ Len(req[r].sent) = 2
    /\ req[r].executed = <<>>
    /\ req[r].cookies.twitch_state # None
    /\ jar.twitch_state = None

Alnum ==
  {"a","b","c","d","e","f","g","h","i","j","k","l","m","n","o","p","q","r","s",
   "t","u","v","w","x","y","z","A","B","C","D","E","F","G","H","I","J","K","L",
   "M","N","O","P","Q","R","S","T","U","V","W","X","Y","Z","0","1","2","3","4",
   "5","6","7","8","9"}

(* C9: in every login the state of the redirect URL equals the value of the
   twitch_state cookie of the same response, that value has 16 characters
   over [A-Za-z0-9], and the login touches neither the User store nor the
   provider. *)
C9_LoginStateMatchesCookie ==
  [][\A r \in Slots :
       Begins(r, "login")
       => LET response == req'[r].response
              state == UrlParam(response.location, "state")
          IN /\ req'[r].pc = "done"
             /\ response.status \div 100 = 3
             /\ response.location.base = AUTHORIZE_URL
             /\ response.set_cookie.key = "twitch_state"
             /\ ~response.set_cookie.expire
             /\ state = response.set_cookie.value
             /\ Len(state) = 16
             /\ \A i \in 1..Len(state) : state[i] \in Alnum
             /\ users' = users
             /\ req'[r].sent = <<>>
             /\ \A q \in Slots \ {r} : req'[q] = req[q]]_vars

(* a second login has replaced the cookie of the first *)
C9_Witness ==
  \E r \in Slots :
    /\ req[r].kind = "login" /\ req[r].pc = "done"
    /\ req[r].cookies.twitch_state # None
    /\ jar.twitch_state = req[r].response.set_cookie.value
    /\ jar.twitch_state # req[r].cookies.twitch_state

(* C10: a refresh issues exactly one POST to the token endpoint, with
   grant_type=refresh_token and the caller's refresh token, returns the
   provider's body unmodified on 200 and fails with the provider's status
   otherwise, and leaves the User store, stored tokens included, unchanged. *)
C10_RefreshIsPassThrough ==
  [][\A r \in Slots :
       /\ Begins(r, "refresh")
          => /\ req'[r].pc = "token"
             /\ users' = users
       /\ req'[r].kind = "refresh"
          => /\ Len(req'[r].sent) = 1
             /\ req'[r].sent[1].method = "POST"
             /\ req'[r].sent[1].url = TOKEN_URL
             /\ req'[r].sent[1].grant_type = "refresh_token"
             /\ req'[r].sent[1].credential = req'[r].arg
       /\ \A s \in TokenStatuses : \A b \in TokenBodies :
            refresh_token_answer(r, s, b)
            => /\ users' = users
               /\ req'[r].pc = "done"
               /\ req'[r].response.status = s
               /\ s = 200 => req'[r].response.body = b]_vars

(* a refresh with the refresh token stored on a User row was answered 200 with
   another pair, the row still holding the old one *)
C10_Witness ==
  \E r \in Slots :
    /\ req[r].kind = "refresh" /\ req[r].pc = "done"
    /\ req[r].response.status = 200
    /\ \E i \in 1..Len(users) :
         /\ users[i].twitch_refresh_token = req[r].arg
         /\ users[i].twitch_refresh_token # req[r].response.body.refresh_token

(* C11: the session acquired for a callback is open while its handler runs and
   is released when the request ends, on every exit path: the 400 of the
   validation, an upstream failure, an exception of the lookup, the commit or
   the refresh, and the redirect; no completed request holds an open session. *)
C11_SessionReleased ==
  /\ [](\A r \in Slots :
         /\ req[r].pc = "done" => req[r].session # "open"
         /\ (req[r].kind = "callback" /\ req[r].pc # "done") => req[r].session = "open"
         /\ (req[r].kind = "callback" /\ req[r].pc = "done") => req[r].session = "closed")
  /\ [][\A r \in Slots :
          (req[r].session = "open" /\ req'[r].pc = "done")
          => req'[r].session = "closed"]_vars

(* a callback whose commit raised has ended with 500 and its session is
   released *)
C11_Witness ==
  \E r \in Slots :
    /\ req[r].kind = "callback" /\ req[r].pc = "done"
    /\ req[r].executed = <<"SELECT", "INSERT">>
    /\ req[r].response.status = 500
    /\ req[r].session = "closed"

(* C12: init_db is idempotent: it creates exactly the declared schemas that are
   absent, a second run in a row leaves the set of schemas of the first run,
   and no run changes or removes a User row. *)
C12_InitDbIdempotent ==
  [][init_db
     => /\ schemas' = schemas \cup metadata
        /\ schemas' \ schemas = metadata \ schemas
        /\ inits >= 1 => schemas' = schemas
        /\ users' = users]_vars

(* init_db has run twice on a database that held User rows and a table that
   is not declared *)
C12_Witness ==
  /\ inits = 2
  /\ users # <<>>
  /\ schemas = metadata \cup ForeignTables

HasProfile(d) == ~d.null /\ d.has_data /\ d.data # <<>>

(* C13: within one callback the user-info request leaves only when the token
   endpoint has answered 200, and carries the access token of that answer; the
   lookup is made only after a 200 user-info answer with a profile; the insert
   only after the lookup found no row; a failed token request is never
   followed by a user-info request. *)
C13_StepsOrdered ==
  [][\A r \in Slots :
       /\ (req[r].kind = "callback" /\ Len(req[r].sent) = 1 /\ Len(req'[r].sent) = 2)
          => \E b \in TokenBodies :
               /\ callback_token(r, 200, b)
               /\ req'[r].sent[2] = Call("GET", USERS_URL, "", b.access_token)
       /\ \A s \in TokenStatuses \ {200} : \A b \in TokenBodies :
            callback_token(r, s, b) => Len(req'[r].sent) = 1 /\ req'[r].pc = "done"
       /\ (req[r].pc # "lookup" /\ req'[r].pc = "lookup")
          => \E d \in UserBodies :
               /\ callback_userinfo(r, 200, d) /\ HasProfile(d)
               /\ req'[r].user_info.id = d.data[1].id
       /\ (req[r].pc # "done" /\ req'[r].executed = <<"SELECT">> /\ req[r].executed = <<>>)
          => req[r].pc = "lookup" /\ Len(req[r].sent) = 2
       /\ (req[r].pc # "commit" /\ req'[r].pc = "commit")
          => callback_lookup(r) /\ ~Present(users, req[r].user_info.id)
       /\ users' # users
          => \E q \in Slots :
               /\ req[q].pc = "commit" /\ req[q].executed = <<"SELECT">>
               /\ req'[q].executed = <<"SELECT", "INSERT">>]_vars

(* a callback has sent both requests, looked up and inserted *)
C13_Witness ==
  \E r \in Slots :
    /\ req[r].kind = "callback" /\ req[r].pc = "refresh"
    /\ Len(req[r].sent) = 2
    /\ req[r].sent[2].credential = req[r].api_response.access_token
    /\ req[r].executed = <<"SELECT", "INSERT">>

(* C14: no retries: a callback issues at most one POST to the token endpoint
   and at most one GET to the user-info endpoint, and its first failure (the
   400 of the validation or an upstream status other than 200) ends it at once
   with an error: no outbound call and no database statement follows. *)
C14_NoRetries ==
  /\ [](\A r \in Slots :
         req[r].kind = "callback"
         => /\ Len(req[r].sent) <= 2
            /\ Len(req[r].sent) >= 1
               => req[r].sent[1].method = "POST" /\ req[r].sent[1].url = TOKEN_URL
            /\ Len(req[r].sent) >= 2
               => req[r].sent[2].method = "GET" /\ req[r].sent[2].url = USERS_URL
            /\ (req[r].pc = "done" /\ req[r].response.status >= 400)
               => /\ req[r].executed = <<>>
                  /\ req[r].response.detail = "Failed to fetch tokens"
                     => Len(req[r].sent) = 1
                  /\ req[r].response.detail = "Failed to fetch user info"
                     => Len(req[r].sent) = 2
                  /\ req[r].response.detail \in {"No query parameters received",
                                                  "Invalid or missing state"}
                     => Len(req[r].sent) = 0)
  /\ [][\A r \in Slots :
          /\ \A s \in TokenStatuses \ {200} : \A b \in TokenBodies :
               callback_token(r, s, b)
               => /\ req'[r].pc = "done" /\ req'[r].response.status = s
                  /\ req'[r].sent = req[r].sent /\ req'[r].executed = req[r].executed
          /\ \A s \in UserStatuses \ {200} : \A d \in UserBodies :
               callback_userinfo(r, s, d)
               => /\ req'[r].pc = "done" /\ req'[r].response.status = s
                  /\ req'[r].sent = req[r].sent /\ req'[r].executed = req[r].executed
          /\ (req[r].pc = "done" /\ req'[r] # req[r])
             => Free(r) /\ started' = started + 1]_vars

(* a callback failed at the user-info request after one POST and one GET, and
   another request has been handled since *)
C14_Witness ==
  \E r \in Slots :
    /\ req[r].kind = "callback" /\ req[r].pc = "done"
    /\ req[r].response.detail = "Failed to fetch user info"
    /\ Len(req[r].sent) = 2
    /\ started = 3

Waiting(q) == q.kind = "callback" /\ q.pc \in {"token", "userinfo"}

(* C15: every callback eventually completes with a response provided each of
   its outbound calls eventually receives a response; a callback whose call
   the provider never answers never completes, that is, a waiting callback
   completes only through an answer of the provider.  "Eventually completes"
   is stated as: no slot holds a running callback for ever. *)
C15_StallsWithoutAnswer ==
  /\ \A r \in Slots : []<>(req[r].kind = "callback" => req[r].pc = "done")
  /\ [][\A r \in Slots :
          (Waiting(req[r]) /\ req'[r].pc = "done")
          => \/ \E s \in TokenStatuses : \E b \in TokenBodies : callback_token(r, s, b)
             \/ \E s \in UserStatuses : \E d \in UserBodies :
                  callback_userinfo(r, s, d)]_vars

(* C15, amended: every callback eventually completes with a response; a
   waiting callback completes only through an answer of the provider or, when
   none comes, through the HTTP client's default timeout, which ends it with a
   server error and without any database statement. *)
C15_CallbackCompletes ==
  /\ \A r \in Slots : []<>(req[r].kind = "callback" => req[r].pc = "done")
  /\ [][\A r \in Slots :
          (Waiting(req[r]) /\ req'[r].pc = "done")
          => \/ \E s \in TokenStatuses : \E b \in TokenBodies : callback_token(r, s, b)
             \/ \E s \in UserStatuses : \E d \in UserBodies :
                  callback_userinfo(r, s, d)
             \/ /\ req'[r].response.status = 500
                /\ req'[r].executed = <<>>
                /\ users' = users]_vars

(* a callback that had sent both requests was ended by the timeout *)
C15_Witness ==
  \E r \in Slots :
    /\ req[r].kind = "callback" /\ req[r].pc = "done"
    /\ Len(req[r].sent) = 2
    /\ req[r].executed = <<>>
    /\ req[r].response = InternalServerError

(* the request satisfies none of the conditions of lines 105 and 112 *)
ValidRequest(q) ==
  /\ ~Absent(q.query.code) /\ ~Absent(q.query.state)
  /\ q.query.state = q.cookies.twitch_state

(* C16: a callback rejected by the validation (no query parameters, code or
   state missing, state different from the cookie) sends nothing to the token
   endpoint and nothing to the user-info endpoint; the authorization code
   goes to the provider only after the state check has passed. *)
C16_NoCallBeforeValidation ==
  \A r \in Slots :
    req[r].kind = "callback"
    => /\ ~ValidRequest(req[r])
          => /\ req[r].sent = <<>>
             /\ req[r].pc = "done" /\ req[r].response.status = 400
       /\ req[r].sent # <<>>
          => /\ ValidRequest(req[r])
             /\ req[r].sent[1] =
                  Call("POST", TOKEN_URL, "authorization_code", req[r].query.code)

(* a callback with the right state and no code was rejected and sent nothing,
   while another one with a code has sent it to the token endpoint *)
C16_Witness ==
  \E r, q \in Slots :
    /\ req[r].kind = "callback" /\ req[r].pc = "done"
    /\ req[r].query.code = None
    /\ req[r].query.state = req[r].cookies.twitch_state
    /\ req[r].query.state # None
    /\ req[r].response.status = 400 /\ req[r].sent = <<>>
    /\ req[q].kind = "callback" /\ Len(req[q].sent) >= 1

(* C17: the twitch_state cookie is cleared only by the redirect of a callback;
   a callback that fails (400, or an upstream status other than 200 after the
   validation passed) leaves the cookie as it was, so a following callback
   with the same state value and cookie passes the validation. *)
C17_CookieKeptOnFailure ==
  [][\A r \in Slots :
       /\ (req'[r].kind = "callback" /\ req'[r].pc = "done" /\ req'[r] # req[r]
           /\ req'[r].response.status >= 400)
          => /\ req'[r].response.set_cookie = NoCookie
             /\ jar' = jar
       /\ (jar.twitch_state # None /\ jar'.twitch_state = None)
          => \E q \in Slots :
               /\ req[q].kind = "callback" /\ req[q].pc # "done"
               /\ req'[q].pc = "done"
               /\ IsRedirectTo(req'[q].response, FRONTEND_URL \o "/configurator")
       /\ \A q \in Slots \ {r} :
            (/\ Begins(r, "callback")
             /\ req[q].kind = "callback" /\ req[q].pc = "done"
             /\ req[q].response.status >= 400 /\ req[q].sent # <<>>
             /\ req'[r].query = req[q].query
             /\ req'[r].cookies = req[q].cookies)
            => req'[r].pc = "token"]_vars

(* after a callback failed at the provider, a second callback with the same
   state and cookie has passed the validation *)
C17_Witness ==
  \E r, q \in Slots :
    /\ r # q
    /\ req[q].kind = "callback" /\ req[q].pc = "done"
    /\ req[q].response.status >= 400 /\ req[q].sent # <<>>
    /\ req[r].kind = "callback" /\ req[r].pc = "token"
    /\ req[r].query = req[q].query /\ req[r].cookies = req[q].cookies
    /\ jar = req[q].cookies

(* C18: the validation never passes when the state parameter and the
   twitch_state cookie are both absent, although the two absent values are
   equal, and never passes for an empty state or an empty code. *)
C18_AbsentOrEmptyRejected ==
  \A r \in Slots :
    (/\ req[r].kind = "callback"
     /\ \/ req[r].query.state = None /\ req[r].cookies.twitch_state = None
        \/ req[r].query.state = <<>>
        \/ req[r].query.code = <<>>)
    => /\ req[r].pc = "done"
       /\ req[r].response.status = 400
       /\ req[r].response.detail \in {"No query parameters received",
                                       "Invalid or missing state"}
       /\ req[r].sent = <<>> /\ req[r].executed = <<>>

(* a callback with a code, no state and no cookie was rejected *)
C18_Witness ==
  \E r \in Slots :
    /\ req[r].kind = "callback" /\ req[r].pc = "done"
    /\ req[r].query.code = <<"c">>
    /\ req[r].query.state = None /\ req[r].cookies.twitch_state = None
    /\ req[r].response = HTTPException(400, "Invalid or missing state")

====
